---- MODULE Spec2Model ----
(***************************************************************************)
(* The book service of src/src/index.ts: five express route handlers over  *)
(* one "book" table reached through a Prisma client.                       *)
(*                                                                         *)
(* Each handler runs synchronously up to its single awaited gateway call   *)
(* and, after it, only writes the response.  The code before the call      *)
(* reads nothing but the request and the code after it touches nothing but *)
(* the response, so a handler is atomic at its gateway call and the        *)
(* interleavings of concurrent requests are the orders of their gateway    *)
(* calls.  A handler is therefore one action.  The request being served    *)
(* and its response are state, so that a property can relate them.         *)
(***************************************************************************)
EXTENDS Integers, Sequences, FiniteSets, TLC

VARIABLES
    table,      \* the rows of the book table, in insertion order
    nextId,     \* the store's id sequence: the id the next create assigns
    request,    \* the HTTP request being served, or NoRequest
    response,   \* the response the handler wrote for it, or NoResponse
    before,     \* history: the table when the handler of `request` started
    ledger,     \* history: what the responses so far told the clients
    faulty      \* environment: whether gateway calls may fail (storage fault)

vars == <<table, nextId, request, response, before, ledger, faulty>>

\* The number of books the model lets the store create.
MaxBooks == 2

-----------------------------------------------------------------------------
(* JSON values of a request body.  A number n is held as 2n ("halves"), so  *)
(* that 3.5 is the value 7 and an integer is an even value.                 *)

Undefined == [type |-> "undefined", str |-> <<>>, num |-> 0]
JsString(s) == [type |-> "string", str |-> s, num |-> 0]
JsNumber(h) == [type |-> "number", str |-> <<>>, num |-> h]

WhiteSpace == {" ", "\t", "\n"}

\* String.prototype.trim
RECURSIVE trimStart(_)
trimStart(s) ==
    IF s # <<>> /\ Head(s) \in WhiteSpace THEN trimStart(Tail(s)) ELSE s

RECURSIVE trimEnd(_)
trimEnd(s) ==
    IF s # <<>> /\ s[Len(s)] \in WhiteSpace
    THEN trimEnd(SubSeq(s, 1, Len(s) - 1))
    ELSE s

trim(s) == trimEnd(trimStart(s))

\* JavaScript truthiness of a JSON value (the `!x` and `x && ...` tests).
Truthy(v) ==
    CASE v.type = "undefined" -> FALSE
      [] v.type = "string"    -> v.str # <<>>
      [] v.type = "number"    -> v.num # 0
      [] OTHER                -> FALSE

\* typeof v === 'string'
IsString(v) == v.type = "string"

\* Number.isInteger
isInteger(v) == v.type = "number" /\ v.num % 2 = 0

\* Number(id) of a path segment of decimal digits.
RECURSIVE Number(_)
Number(p) ==
    IF p = <<>> THEN 0 ELSE 10 * Number(SubSeq(p, 1, Len(p) - 1)) + p[Len(p)]

-----------------------------------------------------------------------------
(* The requests the model sends.                                            *)

StringInputs ==
    { Undefined, JsNumber(14), JsString(<<>>), JsString(<<" ", "\t">>),
      JsString(<<"a">>), JsString(<<" ", "b", " ", "c", "\n">>) }

PublishedInputs ==
    { Undefined, JsNumber(0), JsNumber(3930), JsNumber(7),
      JsString(<<"2", "0", "2", "0">>) }

\* Bodies over every combination of the three fields, and a few that also
\* carry an id field.
Bodies ==
    [title : StringInputs, author : StringInputs,
     published : PublishedInputs, id : {Undefined}]
    \cup [title : {Undefined, JsString(<<"a">>)}, author : {JsString(<<"a">>)},
          published : {Undefined, JsNumber(0)}, id : {JsNumber(18)}]

EmptyBody ==
    [title |-> Undefined, author |-> Undefined,
     published |-> Undefined, id |-> Undefined]

\* The :id path segments: every id the store can assign (id 1 spelled "01")
\* and one it never assigns.
PathIds == { <<d>> : d \in 2..(MaxBooks + 1) } \cup { <<0, 1>> }

NoPath == <<>>

Requests ==
    { [method |-> "POST", id |-> NoPath, body |-> b] : b \in Bodies }
    \cup { [method |-> "PUT", id |-> p, body |-> b] : p \in PathIds, b \in Bodies }
    \cup { [method |-> m, id |-> p, body |-> EmptyBody] :
             m \in {"GET", "DELETE"}, p \in PathIds }
    \cup { [method |-> "GET", id |-> NoPath, body |-> EmptyBody] }

NoRequest == [method |-> "none", id |-> NoPath, body |-> EmptyBody]

(* A response: the status, and as body an error message, a book, the array  *)
(* of books, or nothing.                                                    *)
NoResponse == [status |-> 0, kind |-> "none", error |-> "", books |-> <<>>]

Json(status, books, kind) ==
    [status |-> status, kind |-> kind, error |-> "", books |-> books]

Error(status, message) ==
    [status |-> status, kind |-> "error", error |-> message, books |-> <<>>]

-----------------------------------------------------------------------------
(* The persistence gateway (prisma.book), over the table.                   *)

Ids(t) == { t[i].id : i \in DOMAIN t }

\* The position of the row with this id.
Index(t, id) == CHOOSE i \in DOMAIN t : t[i].id = id

\* prisma.book.create: a new row with the next id of the sequence.
create(data) == [id |-> nextId] @@ data

\* prisma.book.findMany: every row.
findMany == table

\* prisma.book.findUnique: the row, or nothing.
findUnique(id) == SelectSeq(table, LAMBDA r : r.id = id)

\* prisma.book.update: the row with the fields of `data` replaced.
update(t, id, data) ==
    [i \in DOMAIN t |-> IF t[i].id = id THEN data @@ t[i] ELSE t[i]]

\* prisma.book.delete
delete(t, id) == SelectSeq(t, LAMBDA r : r.id # id)

\* Whether this gateway call fails for a reason of the storage.
Faults == IF faulty THEN BOOLEAN ELSE {FALSE}

GatewayMessage == "<message of the gateway's error>"

-----------------------------------------------------------------------------
(* What the responses so far tell a client: the books it was told exist     *)
(* (the bodies of the 201s and 200s of POST and PUT, minus the 204s) and    *)
(* the ids whose delete was answered 204, and the number of 201s.           *)

NoLedger == [books |-> {}, deleted |-> {}, creates |-> 0]

Without(S, id) == { b \in S : b.id # id }

Learn(l, req, res) ==
    CASE req.method = "POST" /\ res.status = 201 ->
           [l EXCEPT !.books = @ \cup {res.books[1]}, !.creates = @ + 1]
      [] req.method = "PUT" /\ res.status = 200 ->
           [l EXCEPT !.books = Without(@, Number(req.id)) \cup {res.books[1]}]
      [] req.method = "DELETE" /\ res.status = 204 ->
           [l EXCEPT !.books = Without(@, Number(req.id)),
                     !.deleted = @ \cup {Number(req.id)}]
      [] OTHER -> l

\* The handler of the request being served ends: table t, sequence n and
\* response res.
Respond(t, n, res) ==
    /\ table' = t
    /\ nextId' = n
    /\ response' = res
    /\ before' = table
    /\ ledger' = Learn(ledger, request, res)
    /\ UNCHANGED <<request, faulty>>

Serving(method, withId) ==
    /\ request.method = method
    /\ (request.id # NoPath) = withId
    /\ response = NoResponse

-----------------------------------------------------------------------------
(* The route handlers.                                                      *)

NoError == ""

\* Variant of PostValidation: the author is checked before the title.
PostValidation_AuthorFirst(body) ==
    LET title == body.title
        author == body.author
        published == body.published
    IN  IF ~Truthy(author) \/ ~IsString(author) \/ Len(trim(author.str)) = 0
        THEN "Author is required and must be a non-empty string"
        ELSE IF ~Truthy(title) \/ ~IsString(title) \/ Len(trim(title.str)) = 0
        THEN "Title is required and must be a non-empty string"
        ELSE IF published = Undefined \/ ~isInteger(published)
        THEN "Published must be an integer value"
        ELSE NoError

\* The validation checks of POST /books: the message of the first that fails.
PostValidation(body) ==
    LET title == body.title
        author == body.author
        published == body.published
    IN  IF ~Truthy(title) \/ ~IsString(title) \/ Len(trim(title.str)) = 0
        THEN "Title is required and must be a non-empty string"
        ELSE IF ~Truthy(author) \/ ~IsString(author) \/ Len(trim(author.str)) = 0
        THEN "Author is required and must be a non-empty string"
        ELSE IF published = Undefined \/ ~isInteger(published)
        THEN "Published must be an integer value"
        ELSE NoError

\* Variant of CreateData: the strings are stored as given.
CreateData_NoTrim(body) ==
    [title |-> body.title.str,
     author |-> body.author.str,
     published |-> body.published.num]

\* The data object of the create call.
CreateData(body) ==
    [title |-> trim(body.title.str),
     author |-> trim(body.author.str),
     published |-> body.published.num]

\* Variant of PutValidation: a string is checked for length without trim().
PutValidation_NoTrim(body) ==
    LET title == body.title
        author == body.author
        published == body.published
    IN  IF title # Undefined /\ (~IsString(title) \/ Len(title.str) = 0)
        THEN "Title must be a non-empty string"
        ELSE IF author # Undefined /\ (~IsString(author) \/ Len(author.str) = 0)
        THEN "Author must be a non-empty string"
        ELSE IF published # Undefined /\ ~isInteger(published)
        THEN "Published must be an integer value"
        ELSE NoError

\* Variant of PutValidation: the title is required, as in POST /books.
PutValidation_Required(body) ==
    LET title == body.title
        author == body.author
        published == body.published
    IN  IF ~IsString(title) \/ Len(trim(title.str)) = 0
        THEN "Title must be a non-empty string"
        ELSE IF author # Undefined /\ (~IsString(author) \/ Len(trim(author.str)) = 0)
        THEN "Author must be a non-empty string"
        ELSE IF published # Undefined /\ ~isInteger(published)
        THEN "Published must be an integer value"
        ELSE NoError

\* The validation checks of PUT /books/:id.
PutValidation(body) ==
    LET title == body.title
        author == body.author
        published == body.published
    IN  IF title # Undefined /\ (~IsString(title) \/ Len(trim(title.str)) = 0)
        THEN "Title must be a non-empty string"
        ELSE IF author # Undefined /\ (~IsString(author) \/ Len(trim(author.str)) = 0)
        THEN "Author must be a non-empty string"
        ELSE IF published # Undefined /\ ~isInteger(published)
        THEN "Published must be an integer value"
        ELSE NoError

NoFields == [f \in {} |-> Undefined]

\* Variant of UpdateData: published is spread by truthiness, like the strings.
UpdateData_Truthy(body) ==
    (IF Truthy(body.title) THEN [title |-> trim(body.title.str)] ELSE NoFields)
    @@ (IF Truthy(body.author) THEN [author |-> trim(body.author.str)] ELSE NoFields)
    @@ (IF Truthy(body.published)
        THEN [published |-> body.published.num] ELSE NoFields)

\* Variant of UpdateData: the id of the body is forwarded with the fields.
UpdateData_WithId(body) ==
    (IF Truthy(body.title) THEN [title |-> trim(body.title.str)] ELSE NoFields)
    @@ (IF Truthy(body.author) THEN [author |-> trim(body.author.str)] ELSE NoFields)
    @@ (IF body.published # Undefined
        THEN [published |-> body.published.num] ELSE NoFields)
    @@ (IF body.id # Undefined THEN [id |-> body.id.num \div 2] ELSE NoFields)

\* The data object of the update call: one spread per field.
UpdateData(body) ==
    (IF Truthy(body.title) THEN [title |-> trim(body.title.str)] ELSE NoFields)
    @@ (IF Truthy(body.author) THEN [author |-> trim(body.author.str)] ELSE NoFields)
    @@ (IF body.published # Undefined
        THEN [published |-> body.published.num] ELSE NoFields)

\* app.post("/books")
PostBooks ==
    /\ Serving("POST", FALSE)
    /\ IF PostValidation(request.body) # NoError
       THEN Respond(table, nextId, Error(400, PostValidation(request.body)))
       ELSE \E fail \in Faults :
            IF fail
            THEN Respond(table, nextId, Error(500, GatewayMessage))
            ELSE LET book == create(CreateData(request.body))
                 IN  Respond(Append(table, book), nextId + 1,
                             Json(201, <<book>>, "book"))

\* Variant of GetBooks: the first row only (findFirst for findMany).
GetBooks_FindFirst ==
    /\ Serving("GET", FALSE)
    /\ \E fail \in Faults :
         IF fail
         THEN Respond(table, nextId, Error(500, "Failed to fetch books"))
         ELSE Respond(table, nextId,
                      Json(200, IF findMany = <<>> THEN <<>> ELSE <<Head(findMany)>>,
                           "list"))

\* app.get("/books")
GetBooks ==
    /\ Serving("GET", FALSE)
    /\ \E fail \in Faults :
         IF fail
         THEN Respond(table, nextId, Error(500, "Failed to fetch books"))
         ELSE Respond(table, nextId, Json(200, findMany, "list"))

\* Variant of GetBook: a missing book is answered like a gateway failure.
GetBook_Missing500 ==
    /\ Serving("GET", TRUE)
    /\ \E fail \in Faults :
         LET book == findUnique(Number(request.id))
         IN  IF fail \/ book = <<>>
             THEN Respond(table, nextId, Error(500, "Failed to fetch book"))
             ELSE Respond(table, nextId, Json(200, book, "book"))

\* app.get("/books/:id")
GetBook ==
    /\ Serving("GET", TRUE)
    /\ \E fail \in Faults :
         IF fail
         THEN Respond(table, nextId, Error(500, "Failed to fetch book"))
         ELSE LET book == findUnique(Number(request.id))
              IN  IF book # <<>>
                  THEN Respond(table, nextId, Json(200, book, "book"))
                  ELSE Respond(table, nextId, Error(404, "Book not found"))

\* Variant of PutBook: a missing id is answered 404.
PutBook_NotFound404 ==
    /\ Serving("PUT", TRUE)
    /\ IF PutValidation(request.body) # NoError
       THEN Respond(table, nextId, Error(400, PutValidation(request.body)))
       ELSE \E fail \in Faults :
            LET id == Number(request.id)
            IN  IF fail
                THEN Respond(table, nextId, Error(500, "Failed to update book"))
                ELSE IF id \notin Ids(table)
                THEN Respond(table, nextId, Error(404, "Book not found"))
                ELSE LET t == update(table, id, UpdateData(request.body))
                     IN  Respond(t, nextId, Json(200, <<t[Index(table, id)]>>, "book"))

\* app.put("/books/:id")
PutBook ==
    /\ Serving("PUT", TRUE)
    /\ IF PutValidation(request.body) # NoError
       THEN Respond(table, nextId, Error(400, PutValidation(request.body)))
       ELSE \E fail \in Faults :
            LET id == Number(request.id)
            IN  IF fail \/ id \notin Ids(table)
                THEN Respond(table, nextId, Error(500, "Failed to update book"))
                ELSE LET t == update(table, id, UpdateData(request.body))
                     IN  Respond(t, nextId, Json(200, <<t[Index(table, id)]>>, "book"))

\* Variant of DeleteBook: 204 is answered without the delete call.
DeleteBook_KeepsRow ==
    /\ Serving("DELETE", TRUE)
    /\ \E fail \in Faults :
         LET id == Number(request.id)
         IN  IF fail \/ id \notin Ids(table)
             THEN Respond(table, nextId, Error(500, "Failed to delete book"))
             ELSE Respond(table, nextId, Json(204, <<>>, "empty"))

\* app.delete("/books/:id")
DeleteBook ==
    /\ Serving("DELETE", TRUE)
    /\ \E fail \in Faults :
         LET id == Number(request.id)
         IN  IF fail \/ id \notin Ids(table)
             THEN Respond(table, nextId, Error(500, "Failed to delete book"))
             ELSE Respond(delete(table, id), nextId, Json(204, <<>>, "empty"))

-----------------------------------------------------------------------------
(* The environment: a client sends a request when none is being served,     *)
(* and the response written by the handler goes out.                        *)

Receive ==
    /\ request = NoRequest
    /\ \E r \in Requests :
         /\ r.method = "POST" => nextId <= MaxBooks
         /\ request' = r
    /\ UNCHANGED <<table, nextId, response, before, ledger, faulty>>

Send ==
    /\ response # NoResponse
    /\ request' = NoRequest
    /\ response' = NoResponse
    /\ before' = <<>>
    /\ UNCHANGED <<table, nextId, ledger, faulty>>

Start ==
    /\ table = <<>>
    /\ nextId = 1
    /\ request = NoRequest
    /\ response = NoResponse
    /\ before = <<>>
    /\ ledger = NoLedger

\* The store works: a gateway call fails only for what the request asks.
Init == Start /\ faulty = FALSE

\* The store may also fail on any gateway call.
InitFaulty == Start /\ faulty \in BOOLEAN

Next ==
    \/ Receive
    \/ PostBooks
    \/ GetBooks
    \/ GetBook
    \/ PutBook
    \/ DeleteBook
    \/ Send

Spec == Init /\ [][Next]_vars

SpecFaulty == InitFaulty /\ [][Next]_vars

-----------------------------------------------------------------------------
(* The vocabulary of the properties, stated without the code's operators.   *)

\* The handler of a request of this route has answered.
Done(method, withId) ==
    /\ response # NoResponse
    /\ request.method = method
    /\ (request.id # NoPath) = withId

Min(S) == CHOOSE x \in S : \A y \in S : x <= y
Max(S) == CHOOSE x \in S : \A y \in S : y <= x

\* A string with at least one character that is not whitespace.
HasContent(v) ==
    v.type = "string" /\ \E i \in DOMAIN v.str : v.str[i] \notin WhiteSpace

\* A string from its first to its last character that is not whitespace.
Stripped(s) ==
    LET keep == { i \in DOMAIN s : s[i] \notin WhiteSpace }
    IN  IF keep = {} THEN <<>> ELSE SubSeq(s, Min(keep), Max(keep))

\* A number without fractional part.
Integral(v) == v.type = "number" /\ (v.num \div 2) * 2 = v.num

\* A stored text: not empty, no whitespace at either end.
CleanText(s) ==
    s # <<>> /\ s[1] \notin WhiteSpace /\ s[Len(s)] \notin WhiteSpace

Provided(v) == v # Undefined

TargetId == Number(request.id)

RowsOf(t, id) == { i \in DOMAIN t : t[i].id = id }

-----------------------------------------------------------------------------
\* C1: after any sequence of POST, PUT and DELETE requests with arbitrary
\* bodies, every stored book has a title and an author that are non-empty,
\* hold a non-whitespace character and carry no whitespace at either end,
\* and a published value that is an integer; no PUT clears a title or author.
C1_StoredBooksValid ==
    \A i \in DOMAIN table :
        /\ CleanText(table[i].title)
        /\ CleanText(table[i].author)
        /\ (table[i].published \div 2) * 2 = table[i].published

\* A PUT tried to clear the title of a stored book to the empty string.
C1_Witness ==
    /\ Done("PUT", TRUE)
    /\ request.body.title = JsString(<<>>)
    /\ TargetId \in Ids(table)

\* C2: a POST /books whose title and author are strings with content and
\* whose published is an integer answers, unless the store fails, 201 with a
\* record that has an id no other stored book holds, the trimmed title and
\* author and the given published value; exactly that record is added.
C2_CreateValid ==
    ( /\ Done("POST", FALSE)
      /\ HasContent(request.body.title)
      /\ HasContent(request.body.author)
      /\ Integral(request.body.published)
      /\ response.status # 500 )
    => /\ response.status = 201
       /\ response.kind = "book"
       /\ Len(response.books) = 1
       /\ LET book == response.books[1]
          IN  /\ book.id \in Int
              /\ book.id \notin Ids(before)
              /\ book.title = Stripped(request.body.title.str)
              /\ book.author = Stripped(request.body.author.str)
              /\ book.published = request.body.published.num
              /\ table = Append(before, book)
              /\ Cardinality(RowsOf(table, book.id)) = 1

\* A second book was created from a title padded with whitespace.
C2_Witness ==
    /\ Done("POST", FALSE)
    /\ response.status = 201
    /\ before # <<>>
    /\ request.body.title.str # Stripped(request.body.title.str)

\* The message of the first validation rule of POST /books a body violates.
PostViolation(body) ==
    IF ~HasContent(body.title)
    THEN "Title is required and must be a non-empty string"
    ELSE IF ~HasContent(body.author)
    THEN "Author is required and must be a non-empty string"
    ELSE IF ~Integral(body.published)
    THEN "Published must be an integer value"
    ELSE "no violation"

\* C3: a POST /books that violates a validation rule answers 400 with the
\* message of the first violated rule in the order title, author, published,
\* and the store is left unchanged.
C3_CreateInvalid ==
    ( Done("POST", FALSE) /\ PostViolation(request.body) # "no violation" )
    => /\ response.status = 400
       /\ response.kind = "error"
       /\ response.error = PostViolation(request.body)
       /\ table = before

\* A POST with a valid title, an invalid author and an invalid published
\* reached a store that holds a book.
C3_Witness ==
    /\ Done("POST", FALSE)
    /\ HasContent(request.body.title)
    /\ ~HasContent(request.body.author)
    /\ ~Integral(request.body.published)
    /\ table # <<>>

\* Every provided field of a PUT body is valid.
PutValid(body) ==
    /\ Provided(body.title) => HasContent(body.title)
    /\ Provided(body.author) => HasContent(body.author)
    /\ Provided(body.published) => Integral(body.published)

C8_IdsStable ==
    /\ \A i, j \in DOMAIN table : table[i].id = table[j].id => i = j
    /\ ( response # NoResponse /\ request.method # "DELETE" )
       => \A i \in DOMAIN before :
             i \in DOMAIN table /\ table[i].id = before[i].id
    /\ Done("DELETE", TRUE) => Ids(table) \subseteq Ids(before)

\* A PUT whose body carries an id field updated one of two books.
C8_Witness ==
    /\ Done("PUT", TRUE)
    /\ response.status = 200
    /\ Provided(request.body.id)
    /\ Len(table) = 2

\* C9: a PUT /books/:id with a valid body and a DELETE /books/:id of an id
\* not in the store answer 500 with their fixed message and leave the store
\* unchanged; an update of a missing id creates no book, also after a delete
\* of that id.
C9_MissingIdIs500 ==
    /\ ( Done("PUT", TRUE) /\ PutValid(request.body) /\ TargetId \notin Ids(before) )
       => /\ response.status = 500
          /\ response.error = "Failed to update book"
          /\ table = before
    /\ ( Done("DELETE", TRUE) /\ TargetId \notin Ids(before) )
       => /\ response.status = 500
          /\ response.error = "Failed to delete book"
          /\ table = before

\* A PUT with a new title reached an id whose book had been deleted, with
\* the store working.
C9_Witness ==
    /\ Done("PUT", TRUE)
    /\ ~faulty
    /\ TargetId \in ledger.deleted
    /\ HasContent(request.body.title)
    /\ PutValid(request.body)

\* The message of the first provided field of a PUT body that is invalid.
PutViolation(body) ==
    IF Provided(body.title) /\ ~HasContent(body.title)
    THEN "Title must be a non-empty string"
    ELSE IF Provided(body.author) /\ ~HasContent(body.author)
    THEN "Author must be a non-empty string"
    ELSE IF Provided(body.published) /\ ~Integral(body.published)
    THEN "Published must be an integer value"
    ELSE "no violation"

\* C10: a PUT /books/:id with an invalid provided field answers 400 with the
\* message of the first invalid field in the order title, author, published
\* and leaves the store unchanged, whether or not the id exists; a body whose
\* provided fields are all valid is never answered 400.
C10_UpdateInvalid ==
    Done("PUT", TRUE)
    => /\ ~PutValid(request.body)
            => /\ response.status = 400
               /\ response.kind = "error"
               /\ response.error = PutViolation(request.body)
               /\ table = before
       /\ PutValid(request.body) => response.status # 400

\* A PUT with a valid title and an empty author reached an id that is not
\* in the store, which holds a book.
C10_Witness ==
    /\ Done("PUT", TRUE)
    /\ HasContent(request.body.title)
    /\ request.body.author = JsString(<<>>)
    /\ TargetId \notin Ids(table)
    /\ table # <<>>

====
